---------------------------- MODULE Spec2Model ----------------------------
(***************************************************************************)
(* exec-utils: one call to spawn() or exec() (src/src/index.ts) together   *)
(* with the events the Node.js process host and the caller can deliver to  *)
(* it: timer expiry, the caller's AbortController, stdout/stderr chunks,   *)
(* the input source stream, the child's 'error' and 'close' events and the *)
(* settlement of the promisified child_process.exec.                       *)
(*                                                                         *)
(* JavaScript is single threaded: the synchronous part of a function and   *)
(* each event handler run to completion, so each is one action here.  The  *)
(* continuation of an await runs as a microtask right after the event that *)
(* settles the promise and is part of that event's action.                 *)
(***************************************************************************)
EXTENDS Integers, Sequences, FiniteSets, TLC

(***************************************************************************)
(* Bounds of the model.                                                    *)
(***************************************************************************)
\* options.timeout ranges over 0..MaxTimeout (0: no timeout configured)
MaxTimeout == 1
\* options.maxBuffer is either unset (0) or this many bytes
CeilingBytes == 1
\* number of stdout/stderr 'data' events delivered to one call
MaxChunks == 2

(***************************************************************************)
(* JavaScript values.  null is the empty tuple and a present value v is    *)
(* <<v>>, so that a nullable field is compared without mixing types.       *)
(***************************************************************************)
NULL == <<>>

Some(v) == <<v>>

\* a thrown / rejected / abort-reason value: an Error with a message, or a
\* value that is not an Error (a string, undefined, ...)
ErrorValue(msg) == [isError |-> TRUE, message |-> msg]

NonErrorValue == [isError |-> FALSE, message |-> ""]

\* an AbortSignal's observable state
NotAborted == [aborted |-> FALSE, reason |-> NonErrorValue]

Aborted(reason) == [aborted |-> TRUE, reason |-> reason]

(***************************************************************************)
(* Bytes and text.  The byte alphabet is 'A' (0x41) and the two bytes of   *)
(* U+00E9 (0xC3 0xA9), so that a multi-byte character can be split across  *)
(* chunks and a lone lead or continuation byte can occur.                  *)
(***************************************************************************)
ChunkSet == { <<195>>, <<169, 65>> }

\* one character, as text
Chr(cp) == IF cp = 65 THEN "A" ELSE "&#" \o ToString(cp) \o ";"

RECURSIVE Flatten(_)
Flatten(chunks) ==
    IF chunks = <<>> THEN <<>> ELSE Head(chunks) \o Flatten(Tail(chunks))

\* Buffer.concat(list, totalLength): the chunks in order, cut or zero-filled
\* to totalLength bytes
BufferConcat(chunks, totalLength) ==
    LET all == Flatten(chunks)
    IN  IF Len(all) >= totalLength
          THEN SubSeq(all, 1, totalLength)
          ELSE all \o [i \in 1..(totalLength - Len(all)) |-> 0]

\* buffer.toString('utf8') on bytes below 0xE0: an ASCII byte is itself, a
\* two-byte lead (0xC2..0xDF) followed by a continuation byte (0x80..0xBF)
\* is one code point, anything else is U+FFFD
RECURSIVE Utf8Decode(_)
Utf8Decode(bytes) ==
    IF bytes = <<>> THEN ""
    ELSE LET b == Head(bytes)
         IN  IF b < 128 THEN Chr(b) \o Utf8Decode(Tail(bytes))
             ELSE IF /\ b >= 194 /\ b <= 223 /\ Len(bytes) >= 2
                     /\ bytes[2] >= 128 /\ bytes[2] <= 191
                  THEN Chr((b - 192) * 64 + (bytes[2] - 128))
                         \o Utf8Decode(Tail(Tail(bytes)))
                  ELSE Chr(65533) \o Utf8Decode(Tail(bytes))

\* buffer.toString('latin1'): one character per byte
RECURSIVE Latin1Decode(_)
Latin1Decode(bytes) ==
    IF bytes = <<>> THEN ""
    ELSE Chr(Head(bytes)) \o Latin1Decode(Tail(bytes))

\* buffer.toString(encoding)
BufferToString(bytes, encoding) ==
    IF encoding = "latin1" THEN Latin1Decode(bytes) ELSE Utf8Decode(bytes)

\* Buffer.from(text, 'utf8'), the text given as its code points (< 0x800)
RECURSIVE Utf8Encode(_)
Utf8Encode(cps) ==
    IF cps = <<>> THEN <<>>
    ELSE LET c == Head(cps)
         IN  (IF c < 128 THEN <<c>> ELSE <<192 + (c \div 64), 128 + (c % 64)>>)
               \o Utf8Encode(Tail(cps))

(***************************************************************************)
(* Messages built by the code.                                             *)
(***************************************************************************)
\* mutant: the message does not carry the configured value
TimeoutMessage_noValue(timeout) == "Command timed out"

TimeoutMessage(timeout) == "Command timed out after " \o ToString(timeout) \o "ms"

MaxBufferMessage(maxBuffer) ==
    "MaxBuffer size exceeded (" \o ToString(maxBuffer) \o " bytes)"

\* mutant: a source error is reported as a failed write
InputStreamMessage_asWrite(msg) == "Failed to write to stdin: " \o msg

InputStreamMessage(msg) == "Input stream error: " \o msg

\* mutant: the caught error's message is passed on as it is
StdinWriteMessage_bare(msg) == msg

StdinWriteMessage(msg) == "Failed to write to stdin: " \o msg

DefaultMaxBuffer == 80 * 1024 * 1024

\* options.maxBuffer || 80 * 1024 * 1024
EffectiveMaxBuffer(options) ==
    IF options.maxBuffer # 0 THEN options.maxBuffer ELSE DefaultMaxBuffer

\* options.encoding || 'utf8'
EffectiveEncoding(options) ==
    IF options.encoding # "" THEN options.encoding ELSE "utf8"

(***************************************************************************)
(* Error.ts and the two result builders.                                   *)
(***************************************************************************)
\* new ExecUtilsError(message, code)
ExecUtilsError(message, code) ==
    [name |-> "ExecUtilsError", message |-> message, code |-> code]

\* mutant: a nonzero exit also returns the output captured so far
createResult_partialData(code, dChunks, dLength, eChunks, eLength, encoding) ==
    LET buffer == BufferConcat(dChunks, dLength)
    IN  [data         |-> Some(BufferToString(buffer, encoding)),
         dataAsBuffer |-> Some(buffer),
         error        |-> IF code = Some(0) THEN NULL
                          ELSE Some(ExecUtilsError(
                                 Utf8Decode(BufferConcat(eChunks, eLength)), code)),
         code         |-> code]

RECURSIVE DecodeEach(_)
DecodeEach(chunks) ==
    IF chunks = <<>> THEN ""
    ELSE Utf8Decode(Head(chunks)) \o DecodeEach(Tail(chunks))

\* mutant: stderr is decoded chunk by chunk instead of after concatenation
createResult_chunkwise(code, dChunks, dLength, eChunks, eLength, encoding) ==
    IF code = Some(0)
      THEN LET buffer == BufferConcat(dChunks, dLength)
           IN  [data         |-> Some(BufferToString(buffer, encoding)),
                dataAsBuffer |-> Some(buffer),
                error        |-> NULL,
                code         |-> code]
      ELSE [data         |-> NULL,
            dataAsBuffer |-> NULL,
            error        |-> Some(ExecUtilsError(DecodeEach(eChunks), code)),
            code         |-> code]

\* mutant: the success result also carries what the child wrote to stderr
createResult_mixedStreams(code, dChunks, dLength, eChunks, eLength, encoding) ==
    IF code = Some(0)
      THEN LET buffer == BufferConcat(dChunks \o eChunks, dLength + eLength)
           IN  [data         |-> Some(BufferToString(buffer, encoding)),
                dataAsBuffer |-> Some(buffer),
                error        |-> NULL,
                code         |-> code]
      ELSE [data         |-> NULL,
            dataAsBuffer |-> NULL,
            error        |-> Some(ExecUtilsError(
                                    Utf8Decode(BufferConcat(eChunks, eLength)),
                                    code)),
            code         |-> code]

\* createResult(code, dataChunks, dataLength, errorChunks, errorLength,
\*              encoding, process); code is what the 'close' event carried
createResult(code, dChunks, dLength, eChunks, eLength, encoding) ==
    IF code = Some(0)
      THEN LET buffer == BufferConcat(dChunks, dLength)
           IN  [data         |-> Some(BufferToString(buffer, encoding)),
                dataAsBuffer |-> Some(buffer),
                error        |-> NULL,
                code         |-> code]
      ELSE LET errorBuffer == BufferConcat(eChunks, eLength)
               errorStr    == Utf8Decode(errorBuffer)
           IN  [data         |-> NULL,
                dataAsBuffer |-> NULL,
                error        |-> Some(ExecUtilsError(errorStr, code)),
                code         |-> code]

\* mutant: the thrown error's message wins over the cancellation reason
createErrorResult_errFirst(err, sig) ==
    LET execError == IF err.isError
                       THEN ExecUtilsError(err.message, Some(-1))
                       ELSE IF sig.aborted /\ sig.reason.isError
                              THEN ExecUtilsError(sig.reason.message, Some(-1))
                              ELSE ExecUtilsError("Operation aborted", Some(-1))
    IN  [data         |-> NULL,
         dataAsBuffer |-> NULL,
         error        |-> Some(execError),
         code         |-> Some(-1)]

\* mutant: without cancellation the thrown error's message is dropped
createErrorResult_genericOnly(err, sig) ==
    LET execError == IF sig.aborted
                       THEN IF sig.reason.isError
                              THEN ExecUtilsError(sig.reason.message, Some(-1))
                              ELSE ExecUtilsError("Operation aborted", Some(-1))
                       ELSE ExecUtilsError("Unknown error occurred", Some(-1))
    IN  [data         |-> NULL,
         dataAsBuffer |-> NULL,
         error        |-> Some(execError),
         code         |-> Some(-1)]

\* createErrorResult(err, signal, process)
createErrorResult(err, sig) ==
    LET fromErr == IF err.isError
                     THEN ExecUtilsError(err.message, Some(-1))
                     ELSE ExecUtilsError("Unknown error occurred", Some(-1))
        execError == IF sig.aborted
                       THEN IF sig.reason.isError
                              THEN ExecUtilsError(sig.reason.message, Some(-1))
                              ELSE ExecUtilsError("Operation aborted", Some(-1))
                       ELSE fromErr
    IN  [data         |-> NULL,
         dataAsBuffer |-> NULL,
         error        |-> Some(execError),
         code         |-> Some(-1)]

\* the success object literal of exec (index.ts 277-283)
execSuccess(stdout, encoding) ==
    [data         |-> Some(BufferToString(stdout, encoding)),
     dataAsBuffer |-> Some(stdout),
     error        |-> NULL,
     code         |-> Some(0)]

(***************************************************************************)
(* The cancellation coordinator.                                           *)
(***************************************************************************)
\* mutant: a later abort overwrites the recorded reason
AbortOf_lastWins(sig, reason) == Aborted(reason)

\* AbortSignal's abort algorithm: the first abort sets the reason, a later
\* one changes nothing
AbortOf(sig, reason) == IF sig.aborted THEN sig ELSE Aborted(reason)

\* AbortSignal.any([a, b]) at creation
AbortSignalAny(a, b) ==
    IF a.aborted THEN Aborted(a.reason)
    ELSE IF b.aborted THEN Aborted(b.reason) ELSE NotAborted

\* the state of the timer: "none" (timeoutId undefined), "pending",
\* "fired", "cleared"
\* setupAbortHandling(options), extSignal being the state of options.signal
setupAbortHandling(options, extSignal) ==
    [abortController |-> NotAborted,
     timeoutId       |-> IF options.timeout # 0 THEN "pending" ELSE "none",
     signal          |-> IF options.hasSignal
                           THEN AbortSignalAny(extSignal, NotAborted)
                           ELSE NotAborted]

\* cleanup(): if (timeoutId) clearTimeout(timeoutId)
cleanup(timer) == IF timer = "pending" THEN "cleared" ELSE timer

(***************************************************************************)
(* The input feeder.  The payload is "undefined", "string", "buffer" or    *)
(* "stream"; fault says whether the first operation on the child's stdin   *)
(* (write, or pipe for a stream) throws synchronously.  The result is the  *)
(* operations performed on child.stdin, the state of the source stream and *)
(* the reason passed to abortController.abort (NULL: not called).          *)
(***************************************************************************)
TextPayload == <<65, 233>>

BytesPayload == <<195, 169>>

StdinOp(op, bytes) == [op |-> op, bytes |-> bytes]

FaultMessage == "write EPIPE"

\* mutant: a text or byte payload is written and the stream is left open
handleInput_leftOpen(input, fault) ==
    IF input = "undefined"
      THEN [stdin |-> <<>>, source |-> "none", abort |-> NULL]
    ELSE IF fault
      THEN [stdin  |-> <<StdinOp("end", <<>>)>>,
            source |-> "none",
            abort  |-> Some(ErrorValue(StdinWriteMessage(FaultMessage)))]
    ELSE IF input = "string"
      THEN [stdin  |-> <<StdinOp("write", Utf8Encode(TextPayload))>>,
            source |-> "none", abort |-> NULL]
    ELSE IF input = "buffer"
      THEN [stdin  |-> <<StdinOp("write", BytesPayload)>>,
            source |-> "none", abort |-> NULL]
    ELSE [stdin |-> <<StdinOp("pipe", <<>>)>>, source |-> "flowing",
          abort |-> NULL]

handleInput(input, fault) ==
    IF input = "undefined"
      THEN [stdin |-> <<>>, source |-> "none", abort |-> NULL]
    ELSE IF fault
      THEN [stdin  |-> <<StdinOp("end", <<>>)>>,
            source |-> "none",
            abort  |-> Some(ErrorValue(StdinWriteMessage(FaultMessage)))]
    ELSE IF input = "string"
      THEN [stdin  |-> <<StdinOp("write", Utf8Encode(TextPayload)),
                         StdinOp("end", <<>>)>>,
            source |-> "none", abort |-> NULL]
    ELSE IF input = "buffer"
      THEN [stdin  |-> <<StdinOp("write", BytesPayload), StdinOp("end", <<>>)>>,
            source |-> "none", abort |-> NULL]
    ELSE [stdin |-> <<StdinOp("pipe", <<>>)>>, source |-> "flowing",
          abort |-> NULL]

(***************************************************************************)
(* The output accumulator's ceiling tests.                                 *)
(***************************************************************************)
\* stdout handler: if (dataLength > maxBuffer)
stdoutExceeds(dLength, eLength, maxBuffer) == dLength > maxBuffer

\* stderr handler: if (dataLength + errorLength > maxBuffer)
stderrExceeds(dLength, eLength, maxBuffer) == dLength + eLength > maxBuffer

(***************************************************************************)
(* The state of one call.                                                  *)
(***************************************************************************)
VARIABLES
    entry,            \* the public function called: "spawn" or "exec"
    options,          \* the caller's options
    ext,              \* options.signal, the caller's handle (an AbortSignal)
    pc,               \* "idle", "waiting" (at the await), "resolved", "rejected"
    via,              \* the host in use: "none", "spawn", "exec"
    abortController,  \* abortController.signal
    signal,           \* the effective signal
    timeoutId,        \* the timer: "none", "pending", "fired", "cleared"
    listener,         \* the call's 'abort' listener: "none", "armed", "ran"
    child,            \* the child process: "none", "running", "exited"
    kills,            \* child.kill('SIGTERM') calls made by the call's listener
    hostKills,        \* kills made by the host for the options.signal it was given
    stdin,            \* operations performed on child.stdin, in order
    source,           \* the input source stream: "none", "flowing", "ended", "errored"
    dataChunks, dataLength, errorChunks, errorLength,
    result,           \* NULL, or the SpawnResult the promise resolved with
    fired,            \* history: the triggers that fired, in order of first firing
    resolution,       \* history: how the result was built
    started,          \* history: what the call handed to the host and set up
    world             \* the system of two concurrent calls (DuoSpec only)

vars == <<entry, options, ext, pc, via, abortController, signal, timeoutId,
          listener, child, kills, hostKills, stdin, source, dataChunks,
          dataLength, errorChunks, errorLength, result, fired, resolution,
          started, world>>

\* values the caller can abort its controller with: abort() (a DOMException,
\* which is an Error), abort(new Error("stop")), abort("stop")
DefaultAbortReason == ErrorValue("This operation was aborted")

ExtReasons == { DefaultAbortReason, ErrorValue("stop"), NonErrorValue }

\* the AbortError the host emits on the child when options.signal aborts
AbortError == ErrorValue("The operation was aborted")

\* what the 'close' event can carry: an exit code, or null when the child
\* was ended by a signal
CloseCodes == { Some(0), Some(7), NULL }

\* what the host can emit as 'error' on the child
HostErrors == { ErrorValue("spawn ENOENT"), NonErrorValue }

\* errors of the source stream
SourceErrors == { "read failed" }

\* how the promisified child_process.exec settles: it resolves with stdout
\* on exit code 0 and rejects otherwise (nonzero exit, child ended by a
\* signal, its own maxBuffer check)
ExecOutcomes ==
    { [kind |-> "resolve", stdout |-> b, stderr |-> <<>>, code |-> Some(0),
       err |-> NonErrorValue] : b \in { <<65>>, <<195, 169>> } }
    \cup
    { [kind |-> "reject", stdout |-> <<>>, stderr |-> e, code |-> Some(7),
       err |-> ErrorValue("Command failed: cmd\n" \o Utf8Decode(e))]
        : e \in { <<65>> } }
    \cup
    { [kind |-> "reject", stdout |-> <<>>, stderr |-> <<>>, code |-> NULL,
       err |-> ErrorValue("Command failed: cmd\n")],
      [kind |-> "reject", stdout |-> <<>>, stderr |-> <<>>, code |-> NULL,
       err |-> ErrorValue("stdout maxBuffer length exceeded")] }

\* options.encoding: unset, or an encoding other than the default
Encodings == { "", "latin1" }

Inputs == { "undefined", "string", "buffer", "stream" }

OptionSet ==
    [timeout : 0..MaxTimeout, maxBuffer : {0, CeilingBytes},
     encoding : Encodings, hasSignal : BOOLEAN, input : Inputs]

Trigger(kind, reason) == [kind |-> kind, reason |-> reason]

AddTrigger(f, kind, reason) ==
    IF \E i \in DOMAIN f : f[i].kind = kind THEN f
    ELSE Append(f, Trigger(kind, reason))

NoResolution ==
    [by |-> "none", code |-> NULL, aborted |-> FALSE, thrown |-> NonErrorValue,
     stderr |-> <<>>]

\* by: "close", "error" (the child's 'error' event), "resolve" or "reject"
\* (execPromise); code: the exit code the host reported; aborted: whether the
\* effective signal was aborted then; thrown: the value caught; stderr: what
\* the buffering host captured on stderr
Resolution(by, code, sig, thrown, stderr) ==
    [by |-> by, code |-> code, aborted |-> sig.aborted, thrown |-> thrown,
     stderr |-> stderr]

\* what a call starts: the file, arguments and shell flag handed to the
\* host, the timers, 'abort' listeners and processes it created, and whether
\* the input feeder's first operation on child.stdin threw
NothingStarted ==
    [file |-> "", args |-> <<>>, shell |-> FALSE, timers |-> 0,
     listeners |-> 0, processes |-> 0, fault |-> FALSE]

\* the single call studied by Spec has no second call beside it
NoWorld == [calls |-> <<>>, procs |-> <<>>, timers |-> <<>>, exts |-> <<>>,
            actor |-> 0]

Init ==
    /\ entry \in {"spawn", "exec"}
    /\ options \in OptionSet
    /\ ext \in IF options.hasSignal
                 THEN {NotAborted} \cup {Aborted(r) : r \in ExtReasons}
                 ELSE {NotAborted}
    /\ pc = "idle"
    /\ via = "none"
    /\ abortController = NotAborted
    /\ signal = NotAborted
    /\ timeoutId = "none"
    /\ listener = "none"
    /\ child = "none"
    /\ kills = 0
    /\ hostKills = 0
    /\ stdin = <<>>
    /\ source = "none"
    /\ dataChunks = <<>>
    /\ dataLength = 0
    /\ errorChunks = <<>>
    /\ errorLength = 0
    /\ result = NULL
    /\ fired = <<>>
    /\ resolution = NoResolution
    /\ started = NothingStarted
    /\ world = NoWorld

(***************************************************************************)
(* abortController.abort(reason), with the call's 'abort' listener         *)
(* (cleanup(); child.kill('SIGTERM'), registered once) running when the    *)
(* effective signal becomes aborted.  timerNow is the timer's state when   *)
(* abort is called.                                                        *)
(***************************************************************************)
\* whether an abort dispatches the 'abort' event to the call's listener
\* mutant: the listener is not once-only and runs at every abort call
listenerRuns_everyAbort(sig, lst) == lst # "none"

listenerRuns(sig, lst) == ~sig.aborted /\ lst = "armed"

AbortControllerAbort(kind, reason, timerNow) ==
    /\ abortController' = AbortOf(abortController, reason)
    /\ signal' = AbortOf(signal, reason)
    /\ fired' = AddTrigger(fired, kind, reason)
    /\ IF listenerRuns(signal, listener)
         THEN /\ listener' = "ran"
              /\ timeoutId' = cleanup(timerNow)
              /\ kills' = kills + 1
         ELSE /\ listener' = listener
              /\ timeoutId' = timerNow
              /\ kills' = kills

(***************************************************************************)
(* spawn(command, args, options): the synchronous part, up to the await.   *)
(* launchThrows: childProcess.spawn throws synchronously (an argument the  *)
(* host refuses); the call is outside the try block, so the async function *)
(* rejects.  exec with an input payload returns spawn('sh', ['-c', cmd]).  *)
(*                                                                         *)
(* options.signal is not removed from the options handed to the host, so   *)
(* the host watches it too: when it is already aborted the host kills the  *)
(* child on the next tick and emits an AbortError on it, which rejects     *)
(* once(child, 'close'); the next tick precedes every other event.         *)
(***************************************************************************)
\* mutant: the recognised options are deleted from the caller's object
optionsAfterCall_inPlace(opts) ==
    [opts EXCEPT !.timeout = 0, !.maxBuffer = 0, !.encoding = "",
                 !.input = "undefined"]

\* the caller's options object after the call: spawnOptions and execOptions
\* are copies ({ ...options }), the deletes act on the copy
optionsAfterCall(opts) == opts

\* mutant: exec never delegates, an input payload goes to the buffering host
UsesSpawn_spawnOnly == entry = "spawn"

UsesSpawn == entry = "spawn" \/ options.input # "undefined"

spawn(launchThrows, fault) ==
    /\ pc = "idle"
    /\ UsesSpawn
    /\ LET setup == setupAbortHandling(options, ext)
           fed   == handleInput(options.input, fault)
           pre   == IF options.hasSignal /\ ext.aborted
                      THEN <<Trigger("external", ext.reason)>> ELSE <<>>
           ctl1  == IF fed.abort = NULL THEN setup.abortController
                    ELSE AbortOf(setup.abortController, fed.abort[1])
           sig1  == IF fed.abort = NULL THEN setup.signal
                    ELSE AbortOf(setup.signal, fed.abort[1])
       IN  IF launchThrows
             THEN /\ pc' = "rejected"
                  /\ abortController' = setup.abortController
                  /\ signal' = setup.signal
                  /\ timeoutId' = setup.timeoutId
                  /\ fired' = pre
                  /\ UNCHANGED <<via, listener, child, hostKills, stdin, source,
                                 result, resolution>>
             ELSE /\ via' = "spawn"
                  /\ child' = "running"
                  /\ stdin' = fed.stdin
                  /\ source' = fed.source
                  /\ abortController' = ctl1
                  /\ signal' = sig1
                  /\ listener' = "armed"
                  /\ fired' = IF fed.abort = NULL THEN pre
                              ELSE Append(pre, Trigger("input", fed.abort[1]))
                  /\ IF options.hasSignal /\ ext.aborted
                       THEN /\ hostKills' = hostKills + 1
                            /\ pc' = "resolved"
                            /\ timeoutId' = cleanup(setup.timeoutId)
                            /\ result' = Some(createErrorResult(AbortError, sig1))
                            /\ resolution' =
                                 Resolution("error", NULL, sig1, AbortError, <<>>)
                       ELSE /\ pc' = "waiting"
                            /\ timeoutId' = setup.timeoutId
                            /\ UNCHANGED <<hostKills, result, resolution>>
    /\ started' =
         [file      |-> IF entry = "exec" THEN "sh" ELSE "cmd",
          args      |-> IF entry = "exec" THEN <<"-c", "cmd">> ELSE <<"arg">>,
          shell     |-> entry = "exec",
          timers    |-> IF options.timeout # 0 THEN 1 ELSE 0,
          listeners |-> IF launchThrows THEN 0 ELSE 1,
          processes |-> IF launchThrows THEN 0 ELSE 1,
          fault     |-> ~launchThrows /\ fault /\ options.input # "undefined"]
    /\ options' = optionsAfterCall(options)
    /\ UNCHANGED <<entry, world, ext, kills, dataChunks, dataLength,
                   errorChunks, errorLength>>

(***************************************************************************)
(* exec(command, options) without input: the synchronous part.  The        *)
(* promisified child_process.exec is called outside the try block; signal  *)
(* and timeout are removed from the options handed to the host.            *)
(***************************************************************************)
exec(launchThrows) ==
    /\ pc = "idle"
    /\ ~UsesSpawn
    /\ LET setup == setupAbortHandling(options, ext)
       IN  /\ abortController' = setup.abortController
           /\ signal' = setup.signal
           /\ timeoutId' = setup.timeoutId
           /\ fired' = IF options.hasSignal /\ ext.aborted
                         THEN <<Trigger("external", ext.reason)>> ELSE <<>>
           /\ IF launchThrows
                THEN /\ pc' = "rejected"
                     /\ UNCHANGED <<via, listener, child>>
                ELSE /\ pc' = "waiting"
                     /\ via' = "exec"
                     /\ child' = "running"
                     /\ listener' = "armed"
    /\ started' =
         [file      |-> "cmd", args |-> <<>>, shell |-> TRUE,
          timers    |-> IF options.timeout # 0 THEN 1 ELSE 0,
          listeners |-> IF launchThrows THEN 0 ELSE 1,
          processes |-> IF launchThrows THEN 0 ELSE 1,
          fault     |-> FALSE]
    /\ options' = optionsAfterCall(options)
    /\ UNCHANGED <<entry, world, ext, kills, hostKills, stdin, source,
                   dataChunks, dataLength, errorChunks, errorLength, result,
                   resolution>>

(***************************************************************************)
(* The timer's callback (index.ts 18-20).                                  *)
(***************************************************************************)
TimerFire ==
    /\ timeoutId = "pending"
    /\ AbortControllerAbort("timeout",
                            ErrorValue(TimeoutMessage(options.timeout)), "fired")
    /\ UNCHANGED <<entry, options, world, started, ext, pc, via, child, hostKills, stdin, source,
                   dataChunks, dataLength, errorChunks, errorLength, result,
                   resolution>>

(***************************************************************************)
(* The caller aborts its controller.  The listeners of options.signal run  *)
(* first: on the spawn path the host's own, which lives until the child    *)
(* exits, kills the child and emits an AbortError on it, rejecting         *)
(* once(child, 'close').  Then the effective signal, which depends on      *)
(* options.signal, dispatches to the call's listener.  The catch block     *)
(* runs as a microtask after both.                                         *)
(***************************************************************************)
ExtAbort(reason) ==
    /\ pc # "idle"
    /\ options.hasSignal
    /\ ~ext.aborted
    /\ ext' = Aborted(reason)
    /\ signal' = AbortOf(signal, reason)
    /\ fired' = AddTrigger(fired, "external", reason)
    /\ LET ran   == listenerRuns(signal, listener)
           host  == via = "spawn" /\ child = "running"
           timer == IF ran THEN cleanup(timeoutId) ELSE timeoutId
       IN  /\ listener' = IF ran THEN "ran" ELSE listener
           /\ kills' = IF ran THEN kills + 1 ELSE kills
           /\ hostKills' = IF host THEN hostKills + 1 ELSE hostKills
           /\ IF host /\ pc = "waiting"
                THEN /\ pc' = "resolved"
                     /\ timeoutId' = cleanup(timer)
                     /\ result' = Some(createErrorResult(AbortError, signal'))
                     /\ resolution' =
                          Resolution("error", NULL, signal', AbortError, <<>>)
                ELSE /\ timeoutId' = timer
                     /\ UNCHANGED <<pc, result, resolution>>
    /\ UNCHANGED <<entry, options, world, started, via, abortController, child, stdin, source,
                   dataChunks, dataLength, errorChunks, errorLength>>

(***************************************************************************)
(* The 'data' handlers of child.stdout and child.stderr (index.ts 168-184).*)
(* They stay registered for as long as the child's streams are open.       *)
(***************************************************************************)
StdoutData(chunk) ==
    /\ via = "spawn"
    /\ child = "running"
    /\ Len(dataChunks) + Len(errorChunks) < MaxChunks
    /\ dataChunks' = Append(dataChunks, chunk)
    /\ dataLength' = dataLength + Len(chunk)
    /\ IF stdoutExceeds(dataLength', errorLength, EffectiveMaxBuffer(options))
         THEN AbortControllerAbort("maxBuffer",
                ErrorValue(MaxBufferMessage(EffectiveMaxBuffer(options))),
                timeoutId)
         ELSE UNCHANGED <<abortController, signal, fired, listener, timeoutId,
                          kills>>
    /\ UNCHANGED <<entry, options, world, started, ext, pc, via, child, hostKills, stdin, source,
                   errorChunks, errorLength, result, resolution>>

StderrData(chunk) ==
    /\ via = "spawn"
    /\ child = "running"
    /\ Len(dataChunks) + Len(errorChunks) < MaxChunks
    /\ errorChunks' = Append(errorChunks, chunk)
    /\ errorLength' = errorLength + Len(chunk)
    /\ IF stderrExceeds(dataLength, errorLength', EffectiveMaxBuffer(options))
         THEN AbortControllerAbort("maxBuffer",
                ErrorValue(MaxBufferMessage(EffectiveMaxBuffer(options))),
                timeoutId)
         ELSE UNCHANGED <<abortController, signal, fired, listener, timeoutId,
                          kills>>
    /\ UNCHANGED <<entry, options, world, started, ext, pc, via, child, hostKills, stdin, source,
                   dataChunks, dataLength, result, resolution>>

(***************************************************************************)
(* The input source stream's 'end' and 'error' listeners (index.ts 45-50). *)
(***************************************************************************)
SourceEnd ==
    /\ source = "flowing"
    /\ source' = "ended"
    /\ stdin' = Append(stdin, StdinOp("end", <<>>))
    /\ UNCHANGED <<entry, options, world, started, ext, pc, via, abortController, signal,
                   timeoutId, listener, child, kills, hostKills, dataChunks,
                   dataLength, errorChunks, errorLength, result, fired,
                   resolution>>

SourceError(msg) ==
    /\ source = "flowing"
    /\ source' = "errored"
    /\ AbortControllerAbort("input", ErrorValue(InputStreamMessage(msg)),
                            timeoutId)
    /\ UNCHANGED <<entry, options, world, started, ext, pc, via, child, hostKills, stdin,
                   dataChunks, dataLength, errorChunks, errorLength, result,
                   resolution>>

(***************************************************************************)
(* The child's 'close' event on the spawn path, and the continuation of    *)
(* the await (index.ts 187-198).                                           *)
(***************************************************************************)
Close(code) ==
    /\ via = "spawn"
    /\ child = "running"
    /\ child' = "exited"
    /\ IF pc = "waiting"
         THEN /\ pc' = "resolved"
              /\ timeoutId' = cleanup(timeoutId)
              /\ result' =
                   IF signal.aborted
                     THEN Some(createErrorResult(signal.reason, signal))
                     ELSE Some(createResult(code, dataChunks, dataLength,
                                            errorChunks, errorLength,
                                            EffectiveEncoding(options)))
              /\ resolution' = Resolution("close", code, signal,
                                          signal.reason, <<>>)
         ELSE UNCHANGED <<pc, timeoutId, result, resolution>>
    /\ UNCHANGED <<entry, options, world, started, ext, via, abortController, signal, listener,
                   kills, hostKills, stdin, source, dataChunks, dataLength,
                   errorChunks, errorLength, fired>>

(***************************************************************************)
(* The child's 'error' event on the spawn path (a failed launch): it       *)
(* rejects once(child, 'close') and the catch block builds the result.     *)
(***************************************************************************)
HostError(err) ==
    /\ via = "spawn"
    /\ child = "running"
    /\ pc = "waiting"
    /\ child' = "exited"
    /\ pc' = "resolved"
    /\ timeoutId' = cleanup(timeoutId)
    /\ result' = Some(createErrorResult(err, signal))
    /\ resolution' = Resolution("error", NULL, signal, err, <<>>)
    /\ UNCHANGED <<entry, options, world, started, ext, via, abortController, signal, listener,
                   kills, hostKills, stdin, source, dataChunks, dataLength,
                   errorChunks, errorLength, fired>>

(***************************************************************************)
(* execPromise settles, and the continuation of the await                  *)
(* (index.ts 270-287).                                                     *)
(***************************************************************************)
ExecSettle(outcome) ==
    /\ via = "exec"
    /\ child = "running"
    /\ pc = "waiting"
    /\ child' = "exited"
    /\ pc' = "resolved"
    /\ timeoutId' = cleanup(timeoutId)
    /\ result' =
         IF outcome.kind = "resolve"
           THEN IF signal.aborted
                  THEN Some(createErrorResult(signal.reason, signal))
                  ELSE Some(execSuccess(outcome.stdout,
                                        EffectiveEncoding(options)))
           ELSE Some(createErrorResult(outcome.err, signal))
    /\ resolution' =
         Resolution(outcome.kind, outcome.code, signal,
                    IF outcome.kind = "resolve" THEN signal.reason
                    ELSE outcome.err, outcome.stderr)
    /\ UNCHANGED <<entry, options, world, started, ext, via, abortController, signal, listener,
                   kills, hostKills, stdin, source, dataChunks, dataLength,
                   errorChunks, errorLength, fired>>

Next ==
    \/ \E t \in BOOLEAN, f \in BOOLEAN : spawn(t, f)
    \/ \E t \in BOOLEAN : exec(t)
    \/ TimerFire
    \/ \E r \in ExtReasons : ExtAbort(r)
    \/ \E c \in ChunkSet : StdoutData(c)
    \/ \E c \in ChunkSet : StderrData(c)
    \/ SourceEnd
    \/ \E m \in SourceErrors : SourceError(m)
    \/ \E c \in CloseCodes : Close(c)
    \/ \E e \in HostErrors : HostError(e)
    \/ \E o \in ExecOutcomes : ExecSettle(o)

Spec == Init /\ [][Next]_vars

(***************************************************************************)
(* The same system with the scheduling the claims about termination        *)
(* assume: a child that was asked to terminate does exit, and the event    *)
(* loop delivers its terminal event.  It starts from the calls that have a *)
(* timeout configured.                                                     *)
(***************************************************************************)
ChildTerminates ==
    /\ kills + hostKills > 0
    /\ \/ \E c \in CloseCodes : Close(c)
       \/ \E o \in ExecOutcomes : ExecSettle(o)

\* the calls made with a timeout configured
LiveInit == Init /\ options.timeout > 0

LiveSpec == LiveInit /\ [][Next]_vars /\ WF_vars(ChildTerminates)

(***************************************************************************)
(* Properties.                                                             *)
(***************************************************************************)
Resolved == pc = "resolved" /\ result # NULL

IsSuccess(r) == r.data # NULL /\ r.dataAsBuffer # NULL /\ r.error = NULL

IsFailure(r) == r.data = NULL /\ r.dataAsBuffer = NULL /\ r.error # NULL

\* a failure result with this code and this message
FailureWith(r, code, message) ==
    /\ IsFailure(r)
    /\ r.code = code
    /\ r.error[1].code = code
    /\ r.error[1].message = message

\* C1: every result returned by spawn or exec is exactly one of the two
\* variants: success (data and dataAsBuffer non-null, error null) or failure
\* (data and dataAsBuffer null, error non-null), on every path.
C1_ExactlyOneVariant ==
    result # NULL =>
        /\ IsSuccess(result[1]) \/ IsFailure(result[1])
        /\ ~(IsSuccess(result[1]) /\ IsFailure(result[1]))
        /\ ~(result[1].data # NULL /\ result[1].error # NULL)
        /\ ~(result[1].data = NULL /\ result[1].error = NULL)

\* C1 witness: every kind of path has produced a result: here a cancelled
\* call resolved by the 'close' event although the child exited with 0.
C1_Witness ==
    /\ Resolved
    /\ resolution.by = "close"
    /\ resolution.code = Some(0)
    /\ resolution.aborted
    /\ IsFailure(result[1])

\* C2 (the claim as stated): no call to spawn or exec ever throws or rejects,
\* the host throwing synchronously at launch included.
C2_NeverRejects == pc # "rejected"

\* C3: the effective signal is a first-wins latch: once cancelled it never
\* resets and its reason never changes, and the reason it records is the
\* reason of the first trigger that fired (external handle, timeout, buffer
\* overflow, input failure).
C3_FirstWinsLatch ==
    /\ [][signal.aborted => signal' = signal]_vars
    /\ [](pc # "idle" =>
            /\ signal.aborted <=> fired # <<>>
            /\ signal.aborted => signal.reason = fired[1].reason)

\* C3 witness: two triggers with different reasons fired in one call and the
\* latch holds the first one's reason.
C3_Witness ==
    /\ Len(fired) >= 2
    /\ fired[1].reason # fired[2].reason
    /\ signal.aborted
    /\ signal.reason = fired[1].reason

\* C4 (the claim as stated): whenever cancellation is triggered, at any
\* moment from the start of the call, the pending timer is cancelled and the
\* child is asked to terminate with SIGTERM exactly once.
C4_AbortKillsOnce ==
    (pc \in {"waiting", "resolved"} /\ signal.aborted) =>
        (kills = 1 /\ timeoutId # "pending")

\* C5: with timeout T > 0, when the timeout is the first trigger to fire
\* while the child is running and the child exits once asked to terminate,
\* the call eventually resolves with a failure of code -1 and message
\* "Command timed out after Tms".
C5_TimeoutFirst ==
    /\ pc = "waiting"
    /\ child = "running"
    /\ options.timeout > 0
    /\ fired # <<>>
    /\ fired[1].kind = "timeout"

C5_TimeoutResult ==
    /\ Resolved
    /\ FailureWith(result[1], Some(-1),
                   "Command timed out after " \o ToString(options.timeout) \o "ms")

C5_TimeoutResolves == C5_TimeoutFirst ~> C5_TimeoutResult

\* C5 witness: a call whose first trigger was the timeout has resolved.
C5_Witness ==
    /\ C5_TimeoutResult
    /\ fired[1].kind = "timeout"
    /\ timeoutId = "fired"
    /\ kills = 1

\* C6 (the claim as stated): in spawn, after every stdout or stderr chunk,
\* if the combined byte count of the two buffers exceeds maxBuffer then
\* cancellation has been triggered with the MaxBuffer reason.
C6_CombinedCeiling ==
    (via = "spawn" /\ dataLength + errorLength > EffectiveMaxBuffer(options)) =>
        /\ signal.aborted
        /\ \E i \in DOMAIN fired :
              /\ fired[i].kind = "maxBuffer"
              /\ fired[i].reason =
                   ErrorValue("MaxBuffer size exceeded ("
                              \o ToString(EffectiveMaxBuffer(options))
                              \o " bytes)")

\* C7: in spawn, when the exit event carries a nonzero exit code c and the
\* effective signal is not cancelled, the result is a failure whose
\* error.code and code are c and whose message is the UTF-8 decoding of the
\* in-order concatenation of all stderr chunks received.
C7_ExitCodeFidelity ==
    (/\ Resolved
     /\ resolution.by = "close"
     /\ ~resolution.aborted
     /\ resolution.code # NULL
     /\ resolution.code # Some(0)) =>
        FailureWith(result[1], resolution.code, Utf8Decode(Flatten(errorChunks)))

\* C7 witness: exit code 7, a two-byte character split over two stderr
\* chunks, stdout discarded.
C7_Witness ==
    /\ Resolved
    /\ resolution.by = "close"
    /\ ~resolution.aborted
    /\ resolution.code = Some(7)
    /\ errorChunks = << <<195>>, <<169, 65>> >>
    /\ result[1].error[1].message = "&#233;A"
    /\ result[1].error[1].code = Some(7)

\* C8 (the claim as stated): in exec without input, when the command runs to
\* completion with a nonzero exit status and no cancellation was triggered,
\* the error code is the process's real exit code and the message is the
\* captured stderr text.
C8_ExecExitCode ==
    (/\ Resolved
     /\ via = "exec"
     /\ resolution.by = "reject"
     /\ ~resolution.aborted
     /\ resolution.code # NULL) =>
        /\ IsFailure(result[1])
        /\ result[1].error[1].code = resolution.code
        /\ result[1].error[1].message = Utf8Decode(resolution.stderr)

\* C9 (the claim as stated): for every failure result error.code is a number
\* and equals the result's code, also when the child was ended by a signal
\* the coordinator did not request (an exit event without a numeric code).
C9_NumericCode ==
    (result # NULL /\ result[1].error # NULL) =>
        /\ result[1].error[1].code # NULL
        /\ result[1].code # NULL
        /\ result[1].error[1].code = result[1].code

C11_ExternalAbortMessage ==
    (Resolved /\ resolution.aborted /\ fired # <<>> /\ fired[1].kind = "external")
        => FailureWith(result[1], Some(-1),
                       IF fired[1].reason = DefaultAbortReason
                            \/ ~fired[1].reason.isError
                         THEN "Operation aborted"
                         ELSE fired[1].reason.message)

\* C12: when spawn's child exits with code 0 and the call was not cancelled,
\* the result is a success with code 0 whose dataAsBuffer is the in-order
\* concatenation of the stdout chunks and whose data is the decoding of those
\* bytes with the configured encoding (UTF-8 when none is set); what the
\* child wrote to stderr does not appear in the result.
C12_SuccessPath ==
    (via = "spawn" /\ Resolved /\ resolution.by = "close"
       /\ ~resolution.aborted /\ resolution.code = Some(0))
        => /\ IsSuccess(result[1])
           /\ result[1].code = Some(0)
           /\ result[1].dataAsBuffer = Some(Flatten(dataChunks))
           /\ result[1].data =
                Some(IF options.encoding = "latin1"
                       THEN Latin1Decode(Flatten(dataChunks))
                       ELSE Utf8Decode(Flatten(dataChunks)))

\* C12 witness: a clean exit after one stdout chunk and one stderr chunk,
\* decoded with a configured encoding other than the default.
C12_Witness ==
    /\ via = "spawn"
    /\ Resolved
    /\ resolution.by = "close"
    /\ ~resolution.aborted
    /\ resolution.code = Some(0)
    /\ options.encoding = "latin1"
    /\ dataChunks = << <<169, 65>> >>
    /\ errorChunks = << <<195>> >>
    /\ result[1].dataAsBuffer = Some(<<169, 65>>)
    /\ result[1].data = Some(Chr(169) \o "A")

\* C13: a cancelled spawn call resolves only when the child's terminal exit
\* event is observed; firing the cancellation signal (caller's handle,
\* timeout, buffer overflow or input failure) never resolves the call by
\* itself.
C13_ResolvesOnExitOnly ==
    (via = "spawn" /\ pc = "resolved" /\ resolution.aborted)
        => resolution.by = "close"

\* C14: once a call to spawn or exec has completed, by a result or by an
\* exception (one raised at launch after the timer was started included), no
\* timer the call started is still pending.
C14_TimerDisposed ==
    pc \in {"resolved", "rejected"} => timeoutId # "pending"

\* the result spawn's try/catch builds from how its wait ended
SpawnOutcome ==
    IF resolution.by = "close" /\ ~resolution.aborted
      THEN createResult(resolution.code, dataChunks, dataLength, errorChunks,
                        errorLength, EffectiveEncoding(options))
      ELSE createErrorResult(resolution.thrown,
                             IF resolution.aborted THEN signal ELSE NotAborted)

\* C15: exec called with an input payload is spawn('sh', ['-c', command])
\* with shell mode on: it goes through the streaming host, its result is
\* the one spawn builds, and beyond what that one spawn call starts (one
\* timer if a timeout is set, one listener, one process) it starts nothing.
\* exec called without input never goes through spawn: it uses the
\* buffering host and its success result has code 0.
C15_ShellDelegation ==
    (entry = "exec" /\ pc # "idle") =>
        IF options.input # "undefined"
          THEN /\ via \in {"none", "spawn"}
               /\ pc # "rejected" => via = "spawn"
               /\ started.file = "sh"
               /\ started.args = <<"-c", "cmd">>
               /\ started.shell
               /\ started.timers = IF options.timeout # 0 THEN 1 ELSE 0
               /\ started.listeners = IF pc = "rejected" THEN 0 ELSE 1
               /\ started.processes = IF pc = "rejected" THEN 0 ELSE 1
               /\ Resolved => result[1] = SpawnOutcome
          ELSE /\ via \in {"none", "exec"}
               /\ pc # "rejected" => via = "exec"
               /\ stdin = <<>>
               /\ started.processes <= 1
               /\ (Resolved /\ IsSuccess(result[1])) => result[1].code = Some(0)

\* C15 witness: exec with a text payload and a timeout resolved with a
\* success built by spawn from the stdout chunks of the 'sh -c' child.
C15_Witness ==
    /\ entry = "exec"
    /\ options.input = "string"
    /\ options.timeout # 0
    /\ via = "spawn"
    /\ started.file = "sh"
    /\ Resolved
    /\ IsSuccess(result[1])
    /\ dataChunks # <<>>
    /\ result[1].dataAsBuffer = Some(Flatten(dataChunks))

\* C16: when the input feeder runs without a synchronous failure, a text
\* payload is written to the child's stdin exactly once as its UTF-8 bytes
\* and a byte payload exactly once as given, the write being followed at
\* once by the close of the stream and by nothing else; when there is no
\* payload the feeder neither writes nor closes.
C16_PayloadWrittenThenClosed ==
    (via = "spawn" /\ ~started.fault) =>
        /\ options.input = "string" =>
             stdin = << [op |-> "write", bytes |-> <<65, 195, 169>>],
                        [op |-> "end", bytes |-> <<>>] >>
        /\ options.input = "buffer" =>
             stdin = << [op |-> "write", bytes |-> <<195, 169>>],
                        [op |-> "end", bytes |-> <<>>] >>
        /\ options.input = "undefined" => stdin = <<>>

\* C16 witness: a text payload with a character outside ASCII was written as
\* its UTF-8 bytes and the stream closed, and the call went on to resolve.
C16_Witness ==
    /\ via = "spawn"
    /\ options.input = "string"
    /\ ~started.fault
    /\ Len(stdin) = 2
    /\ stdin[1].op = "write"
    /\ stdin[1].bytes = <<65, 195, 169>>
    /\ stdin[2].op = "end"
    /\ Resolved

C18_StreamPayload ==
    (via = "spawn" /\ options.input = "stream" /\ ~started.fault) =>
        /\ pc # "rejected"
        /\ source # "none"
        /\ source = "flowing" => stdin = << [op |-> "pipe", bytes |-> <<>>] >>
        /\ source = "ended" =>
             stdin = << [op |-> "pipe", bytes |-> <<>>],
                        [op |-> "end", bytes |-> <<>>] >>
        /\ source = "errored" =>
             /\ stdin = << [op |-> "pipe", bytes |-> <<>>] >>
             /\ signal.aborted
             /\ \E i \in 1..Len(fired) :
                  /\ fired[i].kind = "input"
                  /\ fired[i].reason =
                       [isError |-> TRUE,
                        message |-> "Input stream error: read failed"]
             /\ (Resolved /\ resolution.aborted /\ fired[1].kind = "input") =>
                  FailureWith(result[1], Some(-1),
                              "Input stream error: read failed")
        /\ kills = IF listener = "ran" THEN 1 ELSE 0

\* C18 witness: the source stream's error was the first trigger, the call's
\* listener asked once for the child's termination, and the call resolved
\* with the source error's message.
C18_Witness ==
    /\ via = "spawn"
    /\ options.input = "stream"
    /\ source = "errored"
    /\ fired[1].kind = "input"
    /\ listener = "ran"
    /\ kills = 1
    /\ Resolved
    /\ resolution.by = "close"
    /\ result[1].error # NULL
    /\ result[1].error[1].message = "Input stream error: read failed"

\* C19: when the host reports an error on spawn's child instead of its exit
\* and the effective signal is not cancelled, spawn resolves with a failure
\* of code -1 whose message is the error's message, or "Unknown error
\* occurred" when the raised value is not an Error.
C19_HostFailure ==
    (via = "spawn" /\ Resolved /\ resolution.by = "error" /\ ~resolution.aborted)
        => FailureWith(result[1], Some(-1),
                       IF resolution.thrown.isError
                         THEN resolution.thrown.message
                         ELSE "Unknown error occurred")

\* C19 witness: the program does not exist, nothing was cancelled, and the
\* call resolved with the host's message and code -1.
C19_Witness ==
    /\ via = "spawn"
    /\ Resolved
    /\ resolution.by = "error"
    /\ ~resolution.aborted
    /\ fired = <<>>
    /\ resolution.thrown = [isError |-> TRUE, message |-> "spawn ENOENT"]
    /\ result[1].error # NULL
    /\ result[1].error[1].message = "spawn ENOENT"
    /\ result[1].code = Some(-1)

\* the size of the largest chunk received so far on either stream
LargestReceived ==
    LET sizes == { Len((dataChunks \o errorChunks)[i]) :
                     i \in 1..Len(dataChunks \o errorChunks) }
    IN  IF sizes = {} THEN 0
        ELSE CHOOSE n \in sizes : \A m \in sizes : m <= n

\* C20: at every moment of a spawn call the bytes held from stdout and
\* stderr together exceed maxBuffer by at most the size of one received
\* chunk (the one that crossed the ceiling); chunks delivered after the
\* cancellation do not make the buffers grow beyond that.
C20_SoftCeiling ==
    via = "spawn" =>
        dataLength + errorLength
            <= EffectiveMaxBuffer(options) + LargestReceived

\* C21: once a call has resolved its listeners are released: a trigger that
\* fires after the result was returned (the caller's handle, the input
\* source's error) neither runs the call's 'abort' listener nor issues a
\* termination request.
C21_ListenerRelease ==
    (pc = "resolved" /\ ~resolution.aborted)
        => (listener # "ran" /\ kills = 0)

(***************************************************************************)
(* Two calls in flight at the same time.  Each call has its own locals     *)
(* (the const and let bindings of spawn / exec and the closures over       *)
(* them); the host holds the processes and the timers, the caller holds    *)
(* the two handles.  The module has no state outside the functions, so a   *)
(* call reaches the host's objects only through its own bindings.          *)
(***************************************************************************)
Calls == {1, 2}

\* number of 'data' events delivered to each of the two calls
MaxChunksEach == 1

\* both calls are made with a timeout, a ceiling and a handle of their own
DuoOptions ==
    [timeout |-> 1, maxBuffer |-> CeilingBytes, encoding |-> "",
     hasSignal |-> TRUE, input |-> "undefined"]

\* the reason the caller aborts the handle of call c with
DuoReason(c) == ErrorValue("stop " \o ToString(c))

\* the locals of a call before it is made
IdleCall(e) ==
    [entry |-> e, pc |-> "idle", abortController |-> NotAborted,
     signal |-> NotAborted, listener |-> "none", dataChunks |-> <<>>,
     dataLength |-> 0, errorChunks |-> <<>>, errorLength |-> 0,
     result |-> NULL]

\* mutant: the child is kept in a binding shared by all calls
OwnChild_shared(c) == 1

\* the process the binding `child` / `childProc` of call c refers to
OwnChild(c) == c

\* the single call's variables, which the two-call system leaves alone
callVars ==
    <<entry, options, ext, pc, via, abortController, signal, timeoutId,
      listener, child, kills, hostKills, stdin, source, dataChunks,
      dataLength, errorChunks, errorLength, result, fired, resolution,
      started>>

DuoInit ==
    /\ entry = "spawn"
    /\ options = DuoOptions
    /\ ext = NotAborted
    /\ pc = "idle"
    /\ via = "none"
    /\ abortController = NotAborted
    /\ signal = NotAborted
    /\ timeoutId = "none"
    /\ listener = "none"
    /\ child = "none"
    /\ kills = 0
    /\ hostKills = 0
    /\ stdin = <<>>
    /\ source = "none"
    /\ dataChunks = <<>>
    /\ dataLength = 0
    /\ errorChunks = <<>>
    /\ errorLength = 0
    /\ result = NULL
    /\ fired = <<>>
    /\ resolution = NoResolution
    /\ started = NothingStarted
    /\ \E e1 \in {"spawn", "exec"}, e2 \in {"spawn", "exec"} :
         world = [calls  |-> [c \in Calls |->
                                IdleCall(IF c = 1 THEN e1 ELSE e2)],
                  procs  |-> [c \in Calls |-> [state |-> "none", sigterms |-> 0]],
                  timers |-> [c \in Calls |-> "none"],
                  exts   |-> [c \in Calls |-> NotAborted],
                  actor  |-> 0]

\* abortController.abort(reason) in call c, in the world w; timerNow is the
\* state of the call's timer when abort is called.  The call's listener
\* runs cleanup() and child.kill('SIGTERM') on its own bindings.
DuoAbort(w, c, reason, timerNow) ==
    LET me  == w.calls[c]
        ran == listenerRuns(me.signal, me.listener)
    IN  [w EXCEPT
           !.calls[c] = [me EXCEPT !.abortController = AbortOf(@, reason),
                                   !.signal = AbortOf(@, reason),
                                   !.listener = IF ran THEN "ran" ELSE @],
           !.timers[c] = IF ran THEN cleanup(timerNow) ELSE timerNow,
           !.procs[OwnChild(c)].sigterms = IF ran THEN @ + 1 ELSE @,
           !.actor = c]

\* the synchronous part of spawn / exec in call c (no input payload)
DuoStart(c) ==
    LET me    == world.calls[c]
        setup == setupAbortHandling(DuoOptions, world.exts[c])
        early == me.entry = "spawn" /\ world.exts[c].aborted
    IN  /\ me.pc = "idle"
        /\ world' =
             [world EXCEPT
                !.calls[c] =
                   [me EXCEPT
                      !.pc = IF early THEN "resolved" ELSE "waiting",
                      !.abortController = setup.abortController,
                      !.signal = setup.signal,
                      !.listener = "armed",
                      !.result = IF early
                                   THEN Some(createErrorResult(AbortError,
                                                               setup.signal))
                                   ELSE NULL],
                !.timers[c] = IF early THEN cleanup(setup.timeoutId)
                              ELSE setup.timeoutId,
                !.procs[c] = [state |-> "running",
                              sigterms |-> IF early THEN 1 ELSE 0],
                !.actor = c]
        /\ UNCHANGED callVars

\* the timer of call c fires
DuoTimerFire(c) ==
    /\ world.timers[c] = "pending"
    /\ world' = DuoAbort(world, c, ErrorValue(TimeoutMessage(DuoOptions.timeout)),
                         "fired")
    /\ UNCHANGED callVars

\* the caller aborts the handle it gave to call c
DuoExtAbort(c) ==
    LET me   == world.calls[c]
        ran  == me.pc # "idle" /\ listenerRuns(me.signal, me.listener)
        host == me.entry = "spawn" /\ world.procs[c].state = "running"
        sig1 == IF me.pc = "idle" THEN me.signal
                ELSE AbortOf(me.signal, DuoReason(c))
        tmr  == IF ran THEN cleanup(world.timers[c]) ELSE world.timers[c]
        w1   == [world EXCEPT
                   !.exts[c] = Aborted(DuoReason(c)),
                   !.calls[c] = [me EXCEPT
                                   !.signal = sig1,
                                   !.listener = IF ran THEN "ran" ELSE @],
                   !.procs[OwnChild(c)].sigterms = IF ran THEN @ + 1 ELSE @,
                   !.actor = c]
    IN  /\ ~world.exts[c].aborted
        /\ world' =
             IF host /\ me.pc = "waiting"
               THEN [w1 EXCEPT
                       !.procs[c].sigterms = @ + 1,
                       !.timers[c] = cleanup(tmr),
                       !.calls[c].pc = "resolved",
                       !.calls[c].result =
                          Some(createErrorResult(AbortError, sig1))]
               ELSE [w1 EXCEPT
                       !.procs[c].sigterms = IF host THEN @ + 1 ELSE @,
                       !.timers[c] = tmr]
        /\ UNCHANGED callVars

\* a 'data' event of the stdout of call c's child
DuoStdout(c, chunk) ==
    LET me == world.calls[c]
        w1 == [world EXCEPT
                 !.calls[c].dataChunks = Append(@, chunk),
                 !.calls[c].dataLength = @ + Len(chunk),
                 !.actor = c]
    IN  /\ me.entry = "spawn"
        /\ world.procs[c].state = "running"
        /\ Len(me.dataChunks) + Len(me.errorChunks) < MaxChunksEach
        /\ world' =
             IF stdoutExceeds(me.dataLength + Len(chunk), me.errorLength,
                              EffectiveMaxBuffer(DuoOptions))
               THEN DuoAbort(w1, c,
                      ErrorValue(MaxBufferMessage(EffectiveMaxBuffer(DuoOptions))),
                      world.timers[c])
               ELSE w1
        /\ UNCHANGED callVars

\* a 'data' event of the stderr of call c's child
DuoStderr(c, chunk) ==
    LET me == world.calls[c]
        w1 == [world EXCEPT
                 !.calls[c].errorChunks = Append(@, chunk),
                 !.calls[c].errorLength = @ + Len(chunk),
                 !.actor = c]
    IN  /\ me.entry = "spawn"
        /\ world.procs[c].state = "running"
        /\ Len(me.dataChunks) + Len(me.errorChunks) < MaxChunksEach
        /\ world' =
             IF stderrExceeds(me.dataLength, me.errorLength + Len(chunk),
                              EffectiveMaxBuffer(DuoOptions))
               THEN DuoAbort(w1, c,
                      ErrorValue(MaxBufferMessage(EffectiveMaxBuffer(DuoOptions))),
                      world.timers[c])
               ELSE w1
        /\ UNCHANGED callVars

\* the 'close' event of call c's child on the spawn path
DuoClose(c, code) ==
    LET me == world.calls[c]
    IN  /\ me.entry = "spawn"
        /\ world.procs[c].state = "running"
        /\ world' =
             IF me.pc = "waiting"
               THEN [world EXCEPT
                       !.procs[c].state = "exited",
                       !.timers[c] = cleanup(@),
                       !.calls[c].pc = "resolved",
                       !.calls[c].result =
                          IF me.signal.aborted
                            THEN Some(createErrorResult(me.signal.reason,
                                                        me.signal))
                            ELSE Some(createResult(code, me.dataChunks,
                                        me.dataLength, me.errorChunks,
                                        me.errorLength,
                                        EffectiveEncoding(DuoOptions))),
                       !.actor = c]
               ELSE [world EXCEPT !.procs[c].state = "exited", !.actor = c]
        /\ UNCHANGED callVars

\* execPromise of call c settles
DuoExecSettle(c, outcome) ==
    LET me == world.calls[c]
    IN  /\ me.entry = "exec"
        /\ world.procs[c].state = "running"
        /\ me.pc = "waiting"
        /\ world' =
             [world EXCEPT
                !.procs[c].state = "exited",
                !.timers[c] = cleanup(@),
                !.calls[c].pc = "resolved",
                !.calls[c].result =
                   IF outcome.kind = "resolve"
                     THEN IF me.signal.aborted
                            THEN Some(createErrorResult(me.signal.reason,
                                                        me.signal))
                            ELSE Some(execSuccess(outcome.stdout,
                                        EffectiveEncoding(DuoOptions)))
                     ELSE Some(createErrorResult(outcome.err, me.signal)),
                !.actor = c]
        /\ UNCHANGED callVars

DuoNext ==
    \/ \E c \in Calls : DuoStart(c)
    \/ \E c \in Calls : DuoTimerFire(c)
    \/ \E c \in Calls : DuoExtAbort(c)
    \/ \E c \in Calls, k \in ChunkSet : DuoStdout(c, k)
    \/ \E c \in Calls, k \in ChunkSet : DuoStderr(c, k)
    \/ \E c \in Calls, x \in CloseCodes : DuoClose(c, x)
    \/ \E c \in Calls, o \in ExecOutcomes : DuoExecSettle(c, o)

DuoSpec == DuoInit /\ [][DuoNext]_vars

\* C22: with two calls in flight and a handle each, every step taken for
\* one call (its start, its timer, its handle, a chunk or the exit of its
\* child, a termination request of its listener) leaves the other call's
\* latch, buffers, result and listener, its process, its timer and its
\* handle as they were; and a call's latch never holds the other call's
\* cancellation reason.
C22_CallsIndependent ==
    /\ [][\A j \in Calls :
            j # world'.actor =>
               /\ world'.calls[j] = world.calls[j]
               /\ world'.procs[j] = world.procs[j]
               /\ world'.timers[j] = world.timers[j]
               /\ world'.exts[j] = world.exts[j]]_vars
    /\ [](\A c \in Calls, j \in Calls :
            (world.actor # 0 /\ j # c /\ world.calls[c].signal.aborted)
               => world.calls[c].signal.reason.message
                    # "stop " \o ToString(j))

\* C22 witness: call 1 was cancelled by its own handle and asked once for
\* its child's termination, while call 2, started before that and holding a
\* chunk, kept running untouched and then resolved with a success.
C22_Witness ==
    /\ world.actor # 0
    /\ world.calls[1].entry = "spawn"
    /\ world.calls[2].entry = "spawn"
    /\ world.calls[1].signal.aborted
    /\ world.calls[1].listener = "ran"
    /\ world.procs[1].sigterms >= 1
    /\ world.calls[2].pc = "resolved"
    /\ ~world.calls[2].signal.aborted
    /\ world.calls[2].listener = "armed"
    /\ world.procs[2].sigterms = 0
    /\ world.calls[2].dataChunks # <<>>
    /\ world.calls[2].result # NULL
    /\ IsSuccess(world.calls[2].result[1])
    /\ world.timers[2] = "cleared"

\* C23: the call's coordinator asks for the child's termination only when
\* the call's effective signal is cancelled and at most once: with no
\* trigger fired there is no request, and a second or third trigger adds
\* none.
C23_KillOnlyWhenCancelledOnce ==
    /\ kills <= 1
    /\ kills = 1 => (signal.aborted /\ fired # <<>> /\ listener = "ran")
    /\ fired = <<>> => kills = 0
    /\ ~signal.aborted => kills = 0

\* C23 witness: three triggers fired in one call (timeout, then the
\* caller's handle, then the ceiling) and the coordinator asked once.
C23_Witness ==
    /\ Len(fired) >= 3
    /\ fired[1].kind = "timeout"
    /\ kills = 1
    /\ listener = "ran"
    /\ signal.aborted

\* C24: a timeout, a buffer overflow or an input failure cancels the call's
\* own effective signal and leaves the caller's handle as it was (the
\* handle is cancelled only by the caller, with the caller's reason), and
\* no step of spawn or exec changes the caller's options object.
C24_Frame ==
    /\ [][options' = options]_vars
    /\ [][(fired' # fired /\ fired'[Len(fired')].kind # "external")
            => ext' = ext]_vars
    /\ [](~options.hasSignal => ~ext.aborted)
    /\ []((pc # "idle" /\ ext.aborted) =>
            \E i \in 1..Len(fired) : /\ fired[i].kind = "external"
                                     /\ fired[i].reason = ext.reason)

\* C24 witness: a call made with a timeout, a ceiling, an encoding, a handle
\* and an input resolved after its timer and then its ceiling fired; the
\* handle is not cancelled and the options are those the caller gave.
C24_Witness ==
    /\ Resolved
    /\ options = [timeout |-> 1, maxBuffer |-> CeilingBytes,
                  encoding |-> "latin1", hasSignal |-> TRUE,
                  input |-> "string"]
    /\ Len(fired) = 2
    /\ fired[1].kind = "timeout"
    /\ fired[2].kind = "maxBuffer"
    /\ signal.aborted
    /\ ~ext.aborted

=============================================================================
